---- MODULE Spec2Model ----
(***************************************************************************)
(* The work ledger of the word-frequency coordinator (coordinator.py,      *)
(* class WorkTracker) and the part of the message codec that produces the  *)
(* word-count tables it merges (messages.py, WorkCompleteRequest).         *)
(*                                                                         *)
(* Strings are TLA+ strings.  A Python dict is a function whose DOMAIN is  *)
(* the set of its keys.  A text line is the sequence of its pieces: the    *)
(* tokens and, between and after them, the separators " ", "\n" and        *)
(* "\r\n".  A stream is the sequence of its lines, and reading past the    *)
(* last line returns the empty line, as readline() returns "".             *)
(***************************************************************************)
EXTENDS Integers, Sequences, FiniteSets, TLC

(***************************************************************************)
(* Bounds of the model.                                                    *)
(***************************************************************************)
\* how many of the eight configured plays the model keeps
NumPlays == 2
\* the longest WorkCompleteRequest body, in word-count lines
MaxLines == 1
\* the largest absolute count the aggregate table is followed to
MaxCount == 2

(***************************************************************************)
(* WorkTracker.__init__: the configuration.                                *)
(***************************************************************************)
play_download_host == "www.gutenberg.org"

AllPlayIds == <<1513, 27761, 23042, 1533, 1531, 1522, 1526, 1515>>

play_ids == SubSeq(AllPlayIds, 1, NumPlays)

\* "/cache/epub/%s/pg%s.txt" % (i, i)
PathOf(i) ==
    CASE i = 1513  -> "/cache/epub/1513/pg1513.txt"
      [] i = 27761 -> "/cache/epub/27761/pg27761.txt"
      [] i = 23042 -> "/cache/epub/23042/pg23042.txt"
      [] i = 1533  -> "/cache/epub/1533/pg1533.txt"
      [] i = 1531  -> "/cache/epub/1531/pg1531.txt"
      [] i = 1522  -> "/cache/epub/1522/pg1522.txt"
      [] i = 1526  -> "/cache/epub/1526/pg1526.txt"
      [] i = 1515  -> "/cache/epub/1515/pg1515.txt"

\* the fixed set of configured unit paths
Paths == {PathOf(play_ids[k]) : k \in 1..Len(play_ids)}

\* a path no play is configured for, as a report may carry one
UnknownPath == "/cache/epub/11/pg11.txt"

\* Python's None; str(None) is the string "None", which is another value
None == "NoneType"

(***************************************************************************)
(* Python dicts.                                                           *)
(***************************************************************************)
EmptyDict == [w \in {} |-> 0]

\* d.get(w, default)
Get(d, w, default) == IF w \in DOMAIN d THEN d[w] ELSE default

\* d[w] = v
Put(d, w, v) == [x \in (DOMAIN d) \cup {w} |-> IF x = w THEN v ELSE d[x]]

(***************************************************************************)
(* messages.py: text.                                                      *)
(***************************************************************************)
SP == " "

NL == "\n"

CRLF == "\r\n"

\* the tokens of the model of which another token is a proper prefix
ProperExtensions ==
    {<<"REQWORKS", "REQWORK">>, <<"ACK_WORK_COMPLETE", "ACK_WORK_COMP">>, <<"left.", "left">>}

\* str.startswith, of one piece
piece_startswith(piece, prefix) == piece = prefix \/ <<piece, prefix>> \in ProperExtensions

\* str.startswith, of a line: the prefix may end inside the line's piece
startswith(line, prefix) ==
    /\ Len(line) >= Len(prefix)
    /\ \A k \in 1..(Len(prefix) - 1) : line[k] = prefix[k]
    /\ piece_startswith(line[Len(prefix)], prefix[Len(prefix)])

\* line.find(text) > 0: text occurs in the line, and not at its start
find_after_start(line, text) ==
    \E k \in 2..Len(line) :
        /\ k + Len(text) - 1 <= Len(line)
        /\ startswith(SubSeq(line, k, Len(line)), text)

IsToken(piece) == piece \notin {SP, NL, CRLF, ""}

\* str.split(): the whitespace-separated tokens of a line
split(line) == SelectSeq(line, IsToken)

\* TextIOBase.readline(): line i of the stream, "" at end of file
readline(rest, i) == IF i <= Len(rest) THEN rest[i] ELSE <<>>

\* "%s" % value
s_format(value) == IF value = None THEN "None" ELSE value

(***************************************************************************)
(* messages.py: the messages, as the objects' fields.                      *)
(***************************************************************************)
Message(kind, host, path, counts) ==
    [kind |-> kind, host |-> host, path |-> path, word_counts |-> counts]

HTTPGetRequest(host, path) == Message("HTTPGetRequest", host, path, EmptyDict)

GetWorkRequest == Message("GetWorkRequest", None, None, EmptyDict)

GetWorkResponse(host, path) == Message("GetWorkResponse", host, path, EmptyDict)

WorkCompleteRequest(path, counts) == Message("WorkCompleteRequest", None, path, counts)

WorkCompleteResponse == Message("WorkCompleteResponse", None, None, EmptyDict)

NoMessage == Message("None", None, None, EmptyDict)

\* what serialize and deserialize do: return a value or raise an exception
Returns(value) == [raised |-> "", value |-> value]

Raises(exception) == [raised |-> exception, value |-> NoMessage]

\* serialize raised: there is no text
RaisesInSerialize(exception) == [raised |-> exception, value |-> <<>>]

\* the firstline_prefix of each class
HTTPGetRequest_prefix == <<"GET", SP>>

GetWorkRequest_prefix == <<"REQWORK">>

GetWorkResponse_prefix == <<"ACK_REQWORK", SP>>

WorkCompleteRequest_prefix == <<"REQ_WORK_COMP", SP>>

WorkCompleteResponse_prefix == <<"ACK_WORK_COMP">>

(***************************************************************************)
(* messages.py: the body of a WorkCompleteRequest.                         *)
(***************************************************************************)
Words == {"romeo", "juliet"}

CountTokens == {"-1", "1", "x"}

\* int(count) of a token: the tokens Python's int() accepts, and their values
IsIntToken(tok) == tok \in {"-1", "1"}

int(tok) == CASE tok = "-1" -> -1 [] tok = "1" -> 1

\* "%d" % count
d_format(count) == CASE count = -1 -> "-1" [] count = 1 -> "1"

Blank == <<NL>>

\* the lines a body is made of: "<word> <count>", a lone word, the blank line
Lines ==
    {<<w, SP, c, NL>> : w \in Words, c \in CountTokens} \cup {<<w, NL>> : w \in Words} \cup {Blank}

RECURSIVE SeqsUpTo(_, _)
SeqsUpTo(S, n) ==
    IF n = 0 THEN {<<>>}
    ELSE LET shorter == SeqsUpTo(S, n - 1)
         IN  shorter \cup {Append(s, x) : s \in {t \in shorter : Len(t) = n - 1}, x \in S}

\* the streams that follow a REQ_WORK_COMP first line
Bodies == SeqsUpTo(Lines, MaxLines + 1)

\* WorkCompleteRequest.deserialize, lines 199-205: the loop over the body.
\* i is the next line of rest to read; the result carries the exception raised.
RECURSIVE read_word_counts(_, _, _)
read_word_counts(rest, i, counts) ==
    IF readline(rest, i) = Blank
    THEN [raised |-> "", word_counts |-> counts]
    ELSE IF Len(split(readline(rest, i))) # 2                  \* "".split() unpacks to nothing
    THEN [raised |-> "ValueError", word_counts |-> EmptyDict]
    ELSE IF ~IsIntToken(split(readline(rest, i))[2])
    THEN [raised |-> "ValueError", word_counts |-> EmptyDict]
    ELSE read_word_counts(rest, i + 1,
             Put(counts, split(readline(rest, i))[1], int(split(readline(rest, i))[2])))

\* the word-count tables a decoded WorkCompleteRequest can carry
DecodedWordCounts ==
    {r.word_counts : r \in {d \in {read_word_counts(b, 1, EmptyDict) : b \in Bodies} : d.raised = ""}}

(***************************************************************************)
(* messages.py: serialize.                                                 *)
(***************************************************************************)
\* HTTPGetRequest.serialize
HTTPGetRequest_serialize(m) ==
    Returns(<< <<"GET", SP, s_format(m.path), SP, "HTTP/1.1", CRLF>>,
               <<"Host:", SP, s_format(m.host), CRLF>>,
               <<CRLF>> >>)

\* GetWorkRequest.serialize
GetWorkRequest_serialize(m) == Returns(<< GetWorkRequest_prefix \o <<NL>> >>)

\* line 131: len(self.host) > 0 and len(self.path) > 0; len(None) is a TypeError,
\* and the right operand is evaluated only when the left one holds
work_test_raises(m) == m.host = None \/ (m.host # "" /\ m.path = None)

work_test(m) == m.host # "" /\ m.path # ""

work_form(m) ==
    << GetWorkResponse_prefix \o
           <<"Download", SP, "and", SP, "analyze", SP, "the", SP, "following.", NL>>,
       <<"Host:", SP, s_format(m.host), NL>>,
       <<"Path:", SP, s_format(m.path), NL>> >>

no_work_form ==
    << GetWorkResponse_prefix \o <<"There's", SP, "no", SP, "work", SP, "left.", NL>> >>

\* GetWorkResponse.serialize
GetWorkResponse_serialize(m) ==
    IF work_test_raises(m) THEN RaisesInSerialize("TypeError")
    ELSE IF work_test(m) THEN Returns(work_form(m))
    ELSE Returns(no_work_form)

\* lines 185-186: one "%s %d\n" line for each item of the dict
RECURSIVE item_lines(_)
item_lines(counts) ==
    IF DOMAIN counts = {} THEN <<>>
    ELSE LET word == CHOOSE w \in DOMAIN counts : TRUE
         IN  << <<s_format(word), SP, d_format(counts[word]), NL>> >> \o
             item_lines([w \in (DOMAIN counts) \ {word} |-> counts[w]])

\* WorkCompleteRequest.serialize; a str and None do not concatenate
WorkCompleteRequest_serialize(m) ==
    IF m.path = None THEN RaisesInSerialize("TypeError")
    ELSE Returns(<< WorkCompleteRequest_prefix \o <<m.path, NL>> >> \o
                 item_lines(m.word_counts) \o << <<NL>> >>)

\* WorkCompleteResponse.serialize
WorkCompleteResponse_serialize(m) == Returns(<< WorkCompleteResponse_prefix \o <<NL>> >>)

\* m.serialize(), by the class of m
serialize(m) ==
    CASE m.kind = "HTTPGetRequest" -> HTTPGetRequest_serialize(m)
      [] m.kind = "GetWorkRequest" -> GetWorkRequest_serialize(m)
      [] m.kind = "GetWorkResponse" -> GetWorkResponse_serialize(m)
      [] m.kind = "WorkCompleteRequest" -> WorkCompleteRequest_serialize(m)
      [] m.kind = "WorkCompleteResponse" -> WorkCompleteResponse_serialize(m)

(***************************************************************************)
(* messages.py: deserialize.                                               *)
(***************************************************************************)
\* HTTPGetRequest.deserialize
HTTPGetRequest_deserialize(firstline, rest) ==
    IF startswith(firstline, HTTPGetRequest_prefix)
    THEN IF Len(split(firstline)) # 3 THEN Raises("ValueError")
         ELSE IF Len(split(readline(rest, 1))) # 2 THEN Raises("ValueError")
         ELSE IF split(readline(rest, 1))[1] = "Host:"
         THEN Returns(HTTPGetRequest(split(readline(rest, 1))[2], split(firstline)[2]))
         ELSE Raises("ValueError")
    ELSE Raises("ValueError")

\* GetWorkRequest.deserialize
GetWorkRequest_deserialize(firstline, rest) ==
    IF startswith(firstline, GetWorkRequest_prefix)
    THEN Returns(GetWorkRequest)
    ELSE Raises("ValueError")

\* line 149: the text looked for in the first line
no_work_marker == <<"There's", SP, "no", SP, "work", SP, "left">>

\* lines 154 and 156: the keys of the two lines
host_key_lowercase == "host:"

host_key == "Host:"

path_key == "Path:"

\* GetWorkResponse.deserialize, lines 151-161: the loop over the key-value lines
RECURSIVE read_host_path(_, _, _, _)
read_host_path(rest, i, host, path) ==
    IF Len(readline(rest, i)) = 0 THEN Raises("ValueError")
    ELSE IF Len(split(readline(rest, i))) # 2 THEN Raises("ValueError")
    ELSE LET key == split(readline(rest, i))[1]
             value == split(readline(rest, i))[2]
             new_host == IF key = host_key THEN value ELSE host
             new_path == IF key # host_key /\ key = path_key THEN value ELSE path
         IN  IF new_host # "" /\ new_path # ""
             THEN Returns(GetWorkResponse(new_host, new_path))
             ELSE read_host_path(rest, i + 1, new_host, new_path)

\* GetWorkResponse.deserialize
GetWorkResponse_deserialize(firstline, rest) ==
    IF startswith(firstline, GetWorkResponse_prefix)
    THEN IF find_after_start(firstline, no_work_marker)
         THEN Returns(GetWorkResponse("", ""))
         ELSE read_host_path(rest, 1, "", "")
    ELSE Raises("ValueError")

\* WorkCompleteRequest.deserialize
WorkCompleteRequest_deserialize(firstline, rest) ==
    IF startswith(firstline, WorkCompleteRequest_prefix)
    THEN IF Len(split(firstline)) # 2 THEN Raises("ValueError")
         ELSE IF read_word_counts(rest, 1, EmptyDict).raised # "" THEN Raises("ValueError")
         ELSE Returns(WorkCompleteRequest(split(firstline)[2],
                                          read_word_counts(rest, 1, EmptyDict).word_counts))
    ELSE Raises("ValueError")

\* WorkCompleteResponse.deserialize
WorkCompleteResponse_deserialize(firstline, rest) ==
    IF startswith(firstline, WorkCompleteResponse_prefix)
    THEN Returns(WorkCompleteResponse)
    ELSE Raises("ValueError")

\* line 44 with another exception class
no_prefix_matched_as_in_serialize == Raises("NotImplementedError")

\* line 44: raise ValueError
no_prefix_matched == Raises("ValueError")

\* the lines of a stream after the first
after_firstline(stream) == IF Len(stream) = 0 THEN <<>> ELSE Tail(stream)

\* Message.deserialize
Message_deserialize(stream) ==
    IF startswith(readline(stream, 1), HTTPGetRequest_prefix)
    THEN HTTPGetRequest_deserialize(readline(stream, 1), after_firstline(stream))
    ELSE IF startswith(readline(stream, 1), GetWorkRequest_prefix)
    THEN GetWorkRequest_deserialize(readline(stream, 1), after_firstline(stream))
    ELSE IF startswith(readline(stream, 1), GetWorkResponse_prefix)
    THEN GetWorkResponse_deserialize(readline(stream, 1), after_firstline(stream))
    ELSE IF startswith(readline(stream, 1), WorkCompleteRequest_prefix)
    THEN WorkCompleteRequest_deserialize(readline(stream, 1), after_firstline(stream))
    ELSE IF startswith(readline(stream, 1), WorkCompleteResponse_prefix)
    THEN WorkCompleteResponse_deserialize(readline(stream, 1), after_firstline(stream))
    ELSE no_prefix_matched

(***************************************************************************)
(* The state.                                                              *)
(***************************************************************************)
VARIABLES
    unstarted_paths,   \* WorkTracker.unstarted_paths
    started_paths,     \* WorkTracker.started_paths
    finished_paths,    \* WorkTracker.finished_paths
    word_counts,       \* WorkTracker.word_counts
    op,                \* the method called last
    arg,               \* its path argument (None when it has none)
    ret,               \* what it returned (None when it returned nothing)
    branch,            \* the branch of the method the call left through
    returned,          \* history: the paths get_path_for_volunteer has returned
    accepted,          \* history: for each finished path, the report merged for it
    loop,              \* Coordinator: the accept loop: running, left by break, or by an exception
    wire,              \* the stream read last: a connection's request, or a message's encoding
    decoded,           \* what Message.deserialize made of it
    response,          \* Coordinator: what was written to the last connection, write by write
    printed,           \* Coordinator: how many times the final results were printed
    msg,               \* the message serialized last
    encoded,           \* what serialize made of it
    vol,               \* Volunteer: where each volunteer is in keep_working_until_done
    backlog,           \* Coordinator: the clients that connected and wait for accept()
    serving,           \* Coordinator: the accepted connections that are not closed yet
    at                 \* Coordinator: the statement its one thread is at

\* the three state sets
sets == <<unstarted_paths, started_paths, finished_paths>>

\* the WorkTracker and the record of the calls made on it
tracker == <<unstarted_paths, started_paths, finished_paths, word_counts,
             op, arg, ret, branch, returned, accepted>>

\* the Coordinator's accept loop and its last connection
server == <<loop, wire, decoded, response, printed>>

\* the listening socket's queue, the open connections and the thread's position
connections == <<backlog, serving, at>>

vars == <<unstarted_paths, started_paths, finished_paths, word_counts,
          op, arg, ret, branch, returned, accepted,
          loop, wire, decoded, response, printed, msg, encoded, vol,
          backlog, serving, at>>

\* the exception the last call raised, "" when it returned
raised == IF branch = "KeyError" THEN "KeyError" ELSE ""

\* the volunteers: one that keeps working, one that may stop at any point
Volunteers == {"steady", "flaky"}

\* WorkTracker.__init__, and a Coordinator that has served no connection yet
Init ==
    /\ unstarted_paths = Paths
    /\ started_paths = {}
    /\ finished_paths = {}
    /\ word_counts = EmptyDict
    /\ op = "__init__"
    /\ arg = None
    /\ ret = None
    /\ branch = "__init__"
    /\ returned = {}
    /\ accepted = EmptyDict
    /\ loop = "accepting"
    /\ wire = <<>>
    /\ decoded = Raises("")
    /\ response = <<>>
    /\ printed = 0
    /\ msg = NoMessage
    /\ encoded = RaisesInSerialize("")
    /\ vol = [v \in Volunteers |-> [pc |-> "get_work", path |-> None, result |-> EmptyDict]]
    /\ backlog = <<>>
    /\ serving = <<>>
    /\ at = "accept"

(***************************************************************************)
(* WorkTracker.get_path_for_volunteer                                      *)
(***************************************************************************)
\* has_unstarted with the comparison off by one
has_unstarted_off_by_one == Cardinality(unstarted_paths) > 1

\* line 53: len(self.unstarted_paths) > 0
has_unstarted == Cardinality(unstarted_paths) > 0

\* has_started with the reissue policy left out: nothing Started is handed out again
has_started_never_reissued == FALSE

\* line 58: len(self.started_paths) > 0
has_started == Cardinality(started_paths) > 0

\* hand_out without line 56, the remove
hand_out_without_remove(path) ==
    /\ unstarted_paths' = unstarted_paths
    /\ started_paths' = started_paths \cup {path}
    /\ finished_paths' = finished_paths

\* hand_out with line 57 adding to finished_paths
hand_out_into_finished(path) ==
    /\ unstarted_paths' = unstarted_paths \ {path}
    /\ started_paths' = started_paths
    /\ finished_paths' = finished_paths \cup {path}

\* hand_out without line 57, the add
hand_out_without_add(path) ==
    /\ unstarted_paths' = unstarted_paths \ {path}
    /\ started_paths' = started_paths
    /\ finished_paths' = finished_paths

\* lines 56-57: the chosen path leaves unstarted_paths and enters started_paths
hand_out(path) ==
    /\ unstarted_paths' = unstarted_paths \ {path}
    /\ started_paths' = started_paths \cup {path}
    /\ finished_paths' = finished_paths

\* reissue taking the path out of the set, as set.pop() would
reissue_by_pop(path) ==
    /\ unstarted_paths' = unstarted_paths
    /\ started_paths' = started_paths \ {path}
    /\ finished_paths' = finished_paths

\* line 62: random.choice reads started_paths and changes no set
reissue(path) ==
    /\ unstarted_paths' = unstarted_paths
    /\ started_paths' = started_paths
    /\ finished_paths' = finished_paths

get_path_for_volunteer ==
    /\ op' = "get_path_for_volunteer"
    /\ arg' = None
    /\ UNCHANGED <<word_counts, accepted>>
    /\ IF has_unstarted
       THEN \E path \in unstarted_paths :
                /\ hand_out(path)
                /\ ret' = path
                /\ branch' = "unstarted"
                /\ returned' = returned \cup {path}
       ELSE IF has_started
       THEN \E path \in started_paths :
                /\ reissue(path)
                /\ ret' = path
                /\ branch' = "started"
                /\ returned' = returned \cup {path}
       ELSE /\ UNCHANGED <<unstarted_paths, started_paths, finished_paths, returned>>
            /\ ret' = ""
            /\ branch' = "no_work"

(***************************************************************************)
(* WorkTracker.process_result                                              *)
(***************************************************************************)
\* already_processed without the test of line 75
never_processed(path) == FALSE

\* line 75: path in self.finished_paths
already_processed(path) == path \in finished_paths

\* lines 79-80: the table after every (word, count) of the report is added
AddCounts(table, counts) ==
    [w \in (DOMAIN table) \cup (DOMAIN counts) |->
        IF w \in DOMAIN counts THEN Get(table, w, 0) + counts[w] ELSE table[w]]

InRange(table) == \A w \in DOMAIN table : table[w] \in (0 - MaxCount)..MaxCount

\* line 81: set.remove raises KeyError for a path that is not in the set
remove_raises(path) == path \notin started_paths

\* finish without the remove of line 81
finish_without_remove(path) ==
    /\ started_paths' = started_paths
    /\ finished_paths' = finished_paths \cup {path}

\* lines 81-82: the path leaves started_paths and enters finished_paths
finish(path) ==
    /\ started_paths' = started_paths \ {path}
    /\ finished_paths' = finished_paths \cup {path}

process_result(path, counts) ==
    /\ op' = "process_result"
    /\ arg' = path
    /\ ret' = None
    /\ UNCHANGED <<unstarted_paths, returned>>
    /\ IF already_processed(path)
       THEN /\ UNCHANGED <<started_paths, finished_paths, word_counts, accepted>>
            /\ branch' = "already_finished"
       ELSE /\ InRange(AddCounts(word_counts, counts))
            /\ word_counts' = AddCounts(word_counts, counts)
            /\ IF remove_raises(path)
               THEN \* the KeyError leaves line 81: line 82 is never run
                    /\ UNCHANGED <<started_paths, finished_paths, accepted>>
                    /\ branch' = "KeyError"
               ELSE /\ finish(path)
                    /\ accepted' = Put(accepted, path, counts)
                    /\ branch' = "merged"

\* is_all_work_done testing that nothing is left to hand out
all_work_done_when_none_unstarted == Cardinality(unstarted_paths) = 0

\* WorkTracker.is_all_work_done
is_all_work_done == Cardinality(finished_paths) = Len(play_ids)

\* the WorkTracker alone: its methods called in any order, with any arguments
Next ==
    \/ get_path_for_volunteer /\ UNCHANGED <<server, msg, encoded, vol, connections>>
    \/ \E path \in Paths \cup {UnknownPath}, counts \in DecodedWordCounts :
           process_result(path, counts) /\ UNCHANGED <<server, msg, encoded, vol, connections>>

Spec == Init /\ [][Next]_vars

(***************************************************************************)
(* Coordinator: accept_connections_until_all_work_done and handle_request. *)
(***************************************************************************)
\* what handle_request writes for a WorkCompleteRequest
WorkAck == WorkCompleteResponse_serialize(WorkCompleteResponse).value

\* lines 172-173: the response to a GetWorkRequest
WorkOffer(path) == GetWorkResponse_serialize(GetWorkResponse(play_download_host, path)).value

\* line 170: shutdown = (path == "")
shutdown_for(path) == path = ""

\* lines 147-152: the results are printed and the loop is left by break
print_results_and_break ==
    /\ printed' = printed + 1
    /\ loop' = "shutdown"

\* line 147 with shutdown False: the loop goes on to accept the next connection
accept_next ==
    /\ printed' = printed
    /\ loop' = "accepting"

\* an exception nothing catches leaves the loop, and the process
propagate(exception) ==
    /\ printed' = printed
    /\ loop' = exception

\* Coordinator.handle_request, with what line 147 does with its result.
\* request is what Message.deserialize did with the connection's stream.
handle_request(request) ==
    IF request.raised = "ValueError"
    THEN /\ UNCHANGED tracker
         /\ response' = <<>>
         /\ accept_next
    ELSE IF request.raised # ""
    THEN /\ UNCHANGED tracker
         /\ response' = <<>>
         /\ propagate(request.raised)
    ELSE IF request.value.kind = "GetWorkRequest"
    THEN /\ get_path_for_volunteer
         /\ response' = <<WorkOffer(ret')>>
         /\ IF shutdown_for(ret') THEN print_results_and_break ELSE accept_next
    ELSE IF request.value.kind = "WorkCompleteRequest"
    THEN /\ process_result(request.value.path, request.value.word_counts)
         /\ IF raised' # ""
            THEN /\ response' = <<>>
                 /\ propagate(raised')
            ELSE /\ response' = <<WorkAck>>
                 /\ accept_next
    ELSE /\ UNCHANGED tracker
         /\ response' = <<>>
         /\ accept_next

\* the bodies of the reports sent to the Coordinator: those that end with
\* their blank line, and those that are cut short or hold one malformed line
ReportBodies ==
    {body \in Bodies :
        \/ Len(body) <= 1
        \/ /\ body[Len(body)] = Blank
           /\ \A i \in 1..(Len(body) - 1) : body[i] # Blank
           /\ read_word_counts(body, 1, EmptyDict).raised = ""}

\* the streams a connection may carry: a request for work, reports for any
\* path, other messages, and text that is no message
RequestStreams ==
    {GetWorkRequest_serialize(GetWorkRequest).value}
    \cup {<< WorkCompleteRequest_prefix \o <<path, NL>> >> \o body :
             path \in Paths \cup {UnknownPath}, body \in ReportBodies}
    \cup {WorkAck, no_work_form,
          HTTPGetRequest_serialize(HTTPGetRequest(play_download_host, UnknownPath)).value}
    \cup {<< <<"bogus", SP, "msg">> >>, <<>>}

\* each of them with what Message.deserialize makes of it (line 163)
Connections ==
    {[stream |-> stream, request |-> Message_deserialize(stream)] : stream \in RequestStreams}

\* one turn of the loop of accept_connections_until_all_work_done: a connection
\* is accepted, its stream is handled, and it is closed
accept_connection(connection) ==
    /\ loop = "accepting"
    /\ wire' = connection.stream
    /\ decoded' = connection.request
    /\ handle_request(connection.request)
    /\ UNCHANGED <<msg, encoded, vol, connections>>

CoordNext == \E connection \in Connections : accept_connection(connection)

\* the Coordinator serving any clients
CoordSpec == Init /\ [][CoordNext]_vars

(***************************************************************************)
(* Volunteer: keep_working_until_done, against the Coordinator.            *)
(***************************************************************************)
\* do_work, lines 79-96: the result counts some words, each at least once (line 90);
\* a report of the model has room for MaxLines of them
WorkResults ==
    UNION {[words -> {1}] : words \in {W \in SUBSET Words : Cardinality(W) <= MaxLines}}

\* connect, lines 33-38: the connection is refused once the server socket is closed
refused == loop # "accepting"

\* get_work, line 50: the request, with what Message.deserialize makes of it
\* at the Coordinator
WorkRequests ==
    {[stream |-> stream, request |-> Message_deserialize(stream)] :
        stream \in {GetWorkRequest_serialize(GetWorkRequest).value}}

\* get_work, line 53: what Message.deserialize makes, at the volunteer, of the
\* response written for each path
WorkOffers ==
    {[path |-> offer.path, get_work_response |-> Message_deserialize(offer.stream)] :
        offer \in {[path |-> path, stream |-> WorkOffer(path)] : path \in Paths \cup {""}}}

\* report_work, line 108: the request for each path and result, with what
\* Message.deserialize makes of it at the Coordinator
WorkReports ==
    {[path |-> report.path, result |-> report.result, stream |-> report.stream,
      request |-> Message_deserialize(report.stream)] :
        report \in {[path |-> path, result |-> result,
                     stream |-> WorkCompleteRequest_serialize(
                                    WorkCompleteRequest(path, result)).value] :
                       path \in Paths, result \in WorkResults}}

\* the Coordinator's turn of the loop for the connection of a volunteer
serve(connection) ==
    /\ wire' = connection.stream
    /\ decoded' = connection.request
    /\ handle_request(connection.request)

\* lines 128-131: get_work, and the break when there is nothing to work on
get_work(v) ==
    /\ vol[v].pc = "get_work"
    /\ IF refused
       THEN /\ vol' = [vol EXCEPT ![v].pc = "done"]
            /\ UNCHANGED <<tracker, server>>
       ELSE \E connection \in WorkRequests, offer \in WorkOffers :
                /\ serve(connection)
                /\ response' = <<WorkOffer(offer.path)>>
                /\ IF \/ offer.get_work_response.raised # ""
                      \/ offer.get_work_response.value.path = ""
                   THEN vol' = [vol EXCEPT ![v].pc = "done"]
                   ELSE vol' = [vol EXCEPT ![v].pc = "do_work",
                                           ![v].path = offer.get_work_response.value.path]

\* line 133: do_work returns the word counts of the play
do_work(v) ==
    /\ vol[v].pc = "do_work"
    /\ \E sorted_words \in WorkResults :
           vol' = [vol EXCEPT ![v].pc = "report_work", ![v].result = sorted_words]
    /\ UNCHANGED <<tracker, server>>

\* line 134: report_work; what it returns is not looked at
report_work(v) ==
    /\ vol[v].pc = "report_work"
    /\ vol' = [vol EXCEPT ![v].pc = "get_work"]
    /\ IF refused
       THEN UNCHANGED <<tracker, server>>
       ELSE \E connection \in WorkReports :
                /\ connection.path = vol[v].path
                /\ connection.result = vol[v].result
                /\ serve(connection)

\* a volunteer that took a unit and is never heard of again
disappear(v) ==
    /\ v = "flaky"
    /\ vol[v].pc \in {"do_work", "report_work"}
    /\ vol' = [vol EXCEPT ![v].pc = "gone"]
    /\ UNCHANGED <<tracker, server>>

\* the loop of lines 126-138
keep_working_until_done(v) ==
    \/ get_work(v) /\ UNCHANGED <<msg, encoded, connections>>
    \/ do_work(v) /\ UNCHANGED <<msg, encoded, connections>>
    \/ report_work(v) /\ UNCHANGED <<msg, encoded, connections>>

VolNext ==
    \/ \E v \in Volunteers : keep_working_until_done(v)
    \/ \E v \in Volunteers : disappear(v) /\ UNCHANGED <<msg, encoded, connections>>

\* the Coordinator and its volunteers; the steady one keeps taking its steps
VolSpec == Init /\ [][VolNext]_vars /\ WF_vars(keep_working_until_done("steady"))

(***************************************************************************)
(* messages.py on its own: messages serialized and streams deserialized.   *)
(***************************************************************************)
\* the values a constructor is given for a host (messages_test.py passes None
\* for a missing one)
HostValues == {None, "", play_download_host}

\* and for a path
PathValues == {None, "", PathOf(play_ids[1])}

\* the messages that are constructed
Messages ==
    {HTTPGetRequest(host, path) : host \in HostValues, path \in PathValues}
    \cup {GetWorkRequest, WorkCompleteResponse}
    \cup {GetWorkResponse(host, path) : host \in HostValues, path \in PathValues}
    \cup {WorkCompleteRequest(path, counts) : path \in PathValues, counts \in DecodedWordCounts}

\* the key-value lines that can follow the first line of a work offer
OfferLines ==
    {<<host_key, SP, play_download_host, NL>>, <<path_key, SP, PathOf(play_ids[1]), NL>>,
     <<host_key, NL>>, Blank}

\* the streams that are read
Streams ==
    {<<>>, << <<"bogus", SP, "msg">> >>, << <<"GET", NL>> >>, << <<"REQWORKS", NL>> >>,
     << <<"ACK_WORK_COMPLETE", NL>> >>, no_work_form,
     << <<"ACK_REQWORK", CRLF>>, <<host_key, SP, play_download_host, CRLF>>,
        <<path_key, SP, PathOf(play_ids[1]), CRLF>>, <<CRLF>> >>,
     << <<"REQ_WORK_COMP", CRLF>>, <<path_key, SP, PathOf(play_ids[1]), CRLF>> >>}
    \cup {<<work_form(GetWorkResponse(play_download_host, PathOf(play_ids[1])))[1]>> \o lines :
             lines \in SeqsUpTo(OfferLines, 2)}
    \cup {<< WorkCompleteRequest_prefix \o <<PathOf(play_ids[1]), NL>> >> \o body :
             body \in Bodies}

\* each message with what serialize makes of it
Serialized == {[msg |-> m, encoded |-> serialize(m)] : m \in Messages}

\* and, when serialize returned, with what Message.deserialize makes of that
RoundTrips ==
    {[msg |-> e.msg, encoded |-> e.encoded,
      decoded |-> IF e.encoded.raised = "" THEN Message_deserialize(e.encoded.value)
                  ELSE Raises("")] : e \in Serialized}

\* each stream with what Message.deserialize makes of it
Deserialized == {[stream |-> stream, decoded |-> Message_deserialize(stream)] : stream \in Streams}

\* Message.deserialize(StringIO(m.serialize())), as the tests call it
serialize_deserialize(trip) ==
    /\ msg' = trip.msg
    /\ encoded' = trip.encoded
    /\ wire' = trip.encoded.value
    /\ decoded' = trip.decoded
    /\ UNCHANGED <<tracker, loop, response, printed, vol, connections>>

\* Message.deserialize(StringIO(stream))
deserialize(read) ==
    /\ msg' = NoMessage
    /\ encoded' = RaisesInSerialize("")
    /\ wire' = read.stream
    /\ decoded' = read.decoded
    /\ UNCHANGED <<tracker, loop, response, printed, vol, connections>>

CodecNext ==
    \/ \E trip \in RoundTrips : serialize_deserialize(trip)
    \/ \E read \in Deserialized : deserialize(read)

CodecSpec == Init /\ [][CodecNext]_vars

(***************************************************************************)
(* Coordinator, statement by statement: the one thread of                  *)
(* accept_connections_until_all_work_done and the sockets it holds.        *)
(***************************************************************************)
\* the clients that may connect to the listening socket
Clients == Volunteers

\* the bodies of the reports sent here: an empty table, one word, a body cut short
ServedBodies == {<<Blank>>, << <<"romeo", SP, "1", NL>>, Blank >>, <<>>}

\* the streams a connection may carry: a request for work, a report for any
\* path, a message that is no request, and text that is no message
ServedStreams ==
    {GetWorkRequest_serialize(GetWorkRequest).value, WorkAck, << <<"bogus", SP, "msg">> >>}
    \cup {<< WorkCompleteRequest_prefix \o <<path, NL>> >> \o body :
             path \in Paths \cup {UnknownPath}, body \in ServedBodies}

\* each of them with what Message.deserialize makes of it (line 163)
ServedConnections ==
    {[stream |-> stream, request |-> Message_deserialize(stream)] : stream \in ServedStreams}

\* line 139: the socket accept() returns; nothing is read, called or written yet
connection_socket(client) ==
    [client |-> client, deserialized |-> 0, tracker_calls |-> 0, written |-> 0,
     shutdown |-> FALSE]

\* lines 124-125: a client connects and is queued until accept() takes it
connect(client) ==
    /\ loop # "shutdown"
    /\ \A i \in 1..Len(backlog) : backlog[i] # client
    /\ \A i \in 1..Len(serving) : serving[i].client # client
    /\ backlog' = Append(backlog, client)
    /\ UNCHANGED <<tracker, server, msg, encoded, vol, serving, at>>

\* line 139: accept() takes the first queued connection
accept ==
    /\ loop = "accepting"
    /\ at = "accept"
    /\ backlog # <<>>
    /\ backlog' = Tail(backlog)
    /\ serving' = Append(serving, connection_socket(Head(backlog)))
    /\ response' = <<>>
    /\ at' = "deserialize"
    /\ UNCHANGED <<tracker, loop, wire, decoded, printed, msg, encoded, vol>>

\* lines 162-166: the request is read from the connection accepted last
read_request(connection) ==
    /\ at = "deserialize"
    /\ wire' = connection.stream
    /\ decoded' = connection.request
    /\ serving' = [serving EXCEPT ![Len(serving)].deserialized = @ + 1]
    /\ IF connection.request.raised = "ValueError"
       THEN at' = "close" /\ loop' = loop
       ELSE IF connection.request.raised # ""
       THEN at' = "raised" /\ loop' = connection.request.raised
       ELSE at' = "handle" /\ loop' = loop
    /\ UNCHANGED <<tracker, response, printed, msg, encoded, vol, backlog>>

\* lines 167-183: the one call of the WorkTracker the request asks for
call_tracker ==
    /\ at = "handle"
    /\ IF decoded.value.kind = "GetWorkRequest"
       THEN /\ get_path_for_volunteer
            /\ serving' = [serving EXCEPT ![Len(serving)].tracker_calls = @ + 1,
                                          ![Len(serving)].shutdown = shutdown_for(ret')]
            /\ at' = "write"
            /\ loop' = loop
       ELSE IF decoded.value.kind = "WorkCompleteRequest"
       THEN /\ process_result(decoded.value.path, decoded.value.word_counts)
            /\ serving' = [serving EXCEPT ![Len(serving)].tracker_calls = @ + 1]
            /\ IF raised' # ""
               THEN at' = "raised" /\ loop' = raised'
               ELSE at' = "write" /\ loop' = loop
       ELSE /\ UNCHANGED <<tracker, serving, loop>>
            /\ at' = "close"
    /\ UNCHANGED <<wire, decoded, response, printed, msg, encoded, vol, backlog>>

\* line 174 or line 180: the response is written to the connection
write_response ==
    /\ at = "write"
    /\ response' = Append(response, IF decoded.value.kind = "GetWorkRequest"
                                    THEN WorkOffer(ret) ELSE WorkAck)
    /\ serving' = [serving EXCEPT ![Len(serving)].written = @ + 1]
    /\ at' = "close"
    /\ UNCHANGED <<tracker, loop, wire, decoded, printed, msg, encoded, vol, backlog>>

\* the loop going on without line 145
socket_close_skipped == serving' = serving

\* line 145: connection_socket.close()
socket_close == serving' = SubSeq(serving, 1, Len(serving) - 1)

\* lines 145-152: the connection is closed; then the loop goes on, or ends
close_connection ==
    /\ at = "close"
    /\ socket_close
    /\ IF serving[Len(serving)].shutdown
       THEN print_results_and_break /\ at' = "done"
       ELSE accept_next /\ at' = "accept"
    /\ UNCHANGED <<tracker, wire, decoded, response, msg, encoded, vol, backlog>>

ServeNext ==
    \/ \E client \in Clients : connect(client)
    \/ accept
    \/ \E connection \in ServedConnections : read_request(connection)
    \/ call_tracker
    \/ write_response
    \/ close_connection

\* the Coordinator's thread, with clients connecting at any time
ServeSpec == Init /\ [][ServeNext]_vars

(***************************************************************************)
(* The claims about the ledger.                                            *)
(***************************************************************************)
\* C1: whenever some unit is Unstarted, get_path_for_volunteer returns a path
\* that was Unstarted just before the call and moves exactly that path from
\* Unstarted to Started; every other unit's state and the frequency table are
\* unchanged.
C1_HandOutMovesOneUnstarted ==
    [][(op' = "get_path_for_volunteer" /\ unstarted_paths # {}) =>
          /\ ret' \in unstarted_paths
          /\ unstarted_paths' = unstarted_paths \ {ret'}
          /\ started_paths' = started_paths \cup {ret'}
          /\ finished_paths' = finished_paths
          /\ word_counts' = word_counts]_vars

\* a hand-out has happened: the returned path is Started, no longer Unstarted
C1_Witness ==
    /\ op = "get_path_for_volunteer"
    /\ branch = "unstarted"
    /\ ret \in started_paths
    /\ ret \notin unstarted_paths

\* C2: when no unit is Unstarted and some unit is Started,
\* get_path_for_volunteer returns a path that is Started and changes neither
\* the three state sets nor the frequency table.
C2_ReissueChangesNothing ==
    [][(op' = "get_path_for_volunteer" /\ unstarted_paths = {} /\ started_paths # {}) =>
          /\ ret' \in started_paths
          /\ sets' = sets
          /\ word_counts' = word_counts]_vars

\* a Started path has been reissued while another unit is already Finished
C2_Witness ==
    /\ op = "get_path_for_volunteer"
    /\ branch = "started"
    /\ unstarted_paths = {}
    /\ ret \in started_paths
    /\ finished_paths # {}

RECURSIVE SumAccepted(_)
SumAccepted(S) ==
    IF S = {} THEN EmptyDict
    ELSE LET p == CHOOSE q \in S : TRUE
         IN  AddCounts(SumAccepted(S \ {p}), accepted[p])

\* C4: after any sequence of get_path_for_volunteer and process_result calls
\* the frequency table is the word-wise sum of exactly one report per Finished
\* path, the one merged when the path became Finished; paths that are not
\* Finished contribute nothing.
C4_TableIsSumOfMergedReports ==
    /\ DOMAIN accepted = finished_paths
    /\ word_counts = SumAccepted(finished_paths)

\* C5: process_result for a path that is not configured raises nothing and
\* leaves the frequency table and the three state sets unchanged.
C5_UnknownPathIsNoOp ==
    [][(op' = "process_result" /\ arg' \notin Paths) =>
          /\ raised' = ""
          /\ word_counts' = word_counts
          /\ sets' = sets]_vars

\* C6: in every reachable state the Unstarted, Started and Finished sets are
\* pairwise disjoint and their union is the fixed set of configured paths.
C6_SetsPartitionPaths ==
    /\ unstarted_paths \cap started_paths = {}
    /\ unstarted_paths \cap finished_paths = {}
    /\ started_paths \cap finished_paths = {}
    /\ unstarted_paths \cup started_paths \cup finished_paths = Paths

\* every operation has acted, a KeyError included: one unit is Started, the
\* other Finished, and the last report named a path that was not Started
C6_Witness ==
    /\ started_paths # {}
    /\ finished_paths # {}
    /\ op = "process_result"
    /\ branch = "KeyError"

\* the state a path is in
StateOf(p) ==
    IF p \in unstarted_paths THEN "Unstarted"
    ELSE IF p \in started_paths THEN "Started"
    ELSE IF p \in finished_paths THEN "Finished"
    ELSE "None"

\* C7: a unit's state only moves forward: a step that changes it takes it
\* from Unstarted to Started, by get_path_for_volunteer, or from Started to
\* Finished, by process_result; no unit returns to Unstarted and a Finished
\* unit stays Finished.
C7_StatesOnlyMoveForward ==
    [][\A p \in Paths \cup {UnknownPath} :
          /\ (p \in unstarted_paths' => p \in unstarted_paths)
          /\ (p \in finished_paths => p \in finished_paths')
          /\ (StateOf(p)' # StateOf(p) =>
                \/ /\ StateOf(p) = "Unstarted"
                   /\ StateOf(p)' = "Started"
                   /\ op' = "get_path_for_volunteer"
                \/ /\ StateOf(p) = "Started"
                   /\ StateOf(p)' = "Finished"
                   /\ op' = "process_result")]_vars

\* a path that was handed out has just gone from Started to Finished
C7_Witness ==
    /\ op = "process_result"
    /\ branch = "merged"
    /\ arg \in finished_paths
    /\ arg \in returned

\* C8: no word's count in the frequency table decreases in any step, whatever
\* report is decoded and merged, and every count in the table is a
\* non-negative integer.
C8_CountsNeverDecrease ==
    [][/\ \A w \in Words : Get(word_counts', w, 0) >= Get(word_counts, w, 0)
       /\ \A w \in DOMAIN word_counts' : word_counts'[w] >= 0]_vars

\* C9: is_all_work_done is true exactly when every configured path is
\* Finished; in particular it is true once a report has been merged for every
\* path.
C9_DoneIffAllFinished ==
    /\ is_all_work_done <=> (finished_paths = Paths)
    /\ (DOMAIN accepted = Paths) => is_all_work_done

\* the report for the last path has just been merged and all work is done
C9_Witness ==
    /\ op = "process_result"
    /\ branch = "merged"
    /\ finished_paths = Paths
    /\ is_all_work_done

\* C10: whenever get_path_for_volunteer returns the empty path, every
\* configured path has been returned by an earlier get_path_for_volunteer.
C10_NoWorkOnlyAfterAllReturned ==
    (op = "get_path_for_volunteer" /\ ret = "") => returned = Paths

\* the empty path has been returned
C10_Witness ==
    /\ op = "get_path_for_volunteer"
    /\ branch = "no_work"
    /\ ret = ""

(***************************************************************************)
(* The claims about the Coordinator.                                       *)
(***************************************************************************)
\* the last connection carried a request that decoded to a message of this kind
Decoded(kind) == decoded.raised = "" /\ decoded.value.kind = kind

\* C11: the accept loop ends only after a GetWorkRequest for which
\* get_path_for_volunteer returned the empty path, and whenever it has ended
\* every unit is Finished.
C11_LoopEndsOnlyWhenAllFinished ==
    (loop # "accepting") =>
        /\ Decoded("GetWorkRequest")
        /\ op = "get_path_for_volunteer"
        /\ ret = ""
        /\ finished_paths = Paths

\* C12: for every connection whose request decodes to a WorkCompleteRequest,
\* process_result is called with its path and exactly one WorkCompleteResponse
\* is written to the connection, whether the report was merged or not.
C12_EveryReportIsAcknowledged ==
    Decoded("WorkCompleteRequest") =>
        /\ op = "process_result"
        /\ arg = decoded.value.path
        /\ response = <<WorkAck>>

\* the last connection carried text that is no message, or a message that is
\* neither a GetWorkRequest nor a WorkCompleteRequest
Unserved ==
    \/ decoded.raised = "ValueError"
    \/ /\ decoded.raised = ""
       /\ decoded.value.kind \in {"HTTPGetRequest", "GetWorkResponse", "WorkCompleteResponse"}

\* C13: whatever a connection carries (text that does not decode, a message of
\* another kind, a report naming any path), handling it does not end the
\* accept loop and leaves the three sets a partition of the configured paths;
\* for text that does not decode and for messages of another kind nothing is
\* written and the ledger is unchanged.
C13_FailuresAreContained ==
    [][/\ (loop' # "accepting" => (Decoded("GetWorkRequest")' /\ ret' = ""))
       /\ C6_SetsPartitionPaths'
       /\ Unserved' => (response' = <<>> /\ sets' = sets /\ word_counts' = word_counts)]_vars

\* C15: the final results are printed at most once, only when the loop is left
\* after the empty path was returned with every unit Finished, and a run whose
\* accept loop has ended has printed them exactly once.
C15_ResultsPrintedOnceAtShutdown ==
    /\ printed <= 1
    /\ (printed = 1) => (loop = "shutdown" /\ ret = "" /\ finished_paths = Paths)
    /\ (loop # "accepting") => (printed = 1)

\* C14: when one volunteer keeps repeating the request-work / report-result
\* cycle, then even with a volunteer that takes a unit and never reports back,
\* every unit eventually becomes Finished, and the coordinator eventually
\* answers a GetWorkRequest with the no-work offer and shuts down.
C14_AllWorkEventuallyFinished ==
    <>(/\ finished_paths = Paths
       /\ loop = "shutdown"
       /\ Decoded("GetWorkRequest")
       /\ response = <<no_work_form>>)

\* the coordinator has shut down with every unit Finished although the flaky
\* volunteer took a unit and never reported it
C14_Witness ==
    /\ vol["flaky"].pc = "gone"
    /\ vol["flaky"].path \in Paths
    /\ finished_paths = Paths
    /\ loop = "shutdown"
    /\ response = <<no_work_form>>

(***************************************************************************)
(* The claims about the messages.                                          *)
(***************************************************************************)
\* a message was serialized in the last step
Serialize_called == msg # NoMessage

\* a stream was handed to Message.deserialize in the last step
Deserialize_called == msg = NoMessage /\ decoded # Raises("")

\* the fields the variant of m carries
HasHost(m) == m.kind \in {"HTTPGetRequest", "GetWorkResponse"}

HasPath(m) == m.kind \in {"HTTPGetRequest", "GetWorkResponse", "WorkCompleteRequest"}

IsFilled(value) == value # None /\ value # ""

\* every field of m is a non-empty string
Filled(m) == (HasHost(m) => IsFilled(m.host)) /\ (HasPath(m) => IsFilled(m.path))

\* C16, as stated: for every constructible message m of every variant, a
\* GetWorkResponse with an empty host or path included,
\* Message.deserialize(m.serialize()) returns a message of the same variant with
\* the same host, path and word_counts.
C16_RoundTripOfEveryMessage ==
    Serialize_called =>
        /\ encoded.raised = ""
        /\ decoded.raised = ""
        /\ decoded.value.kind = msg.kind
        /\ decoded.value.host = msg.host
        /\ decoded.value.path = msg.path
        /\ decoded.value.word_counts = msg.word_counts

\* C16, amended: the round trip returns an equal message for every message
\* whose host and path are non-empty strings, whatever its word counts, and for
\* GetWorkResponse("", ""); a GetWorkResponse whose host or path is the empty
\* string encodes to the no-work form and comes back as GetWorkResponse("", "").
C16_RoundTripOfFilledMessages ==
    Serialize_called =>
        /\ (Filled(msg) \/ msg = GetWorkResponse("", "")) =>
               /\ encoded.raised = ""
               /\ decoded = Returns(msg)
        /\ (msg.kind = "GetWorkResponse" /\ msg.host # None /\ msg.path # None
                /\ ~Filled(msg)) =>
               /\ encoded = Returns(no_work_form)
               /\ decoded = Returns(GetWorkResponse("", ""))

\* a WorkCompleteRequest with a word in its table came back equal
C16_Witness ==
    /\ Serialize_called
    /\ msg.kind = "WorkCompleteRequest"
    /\ DOMAIN msg.word_counts # {}
    /\ decoded = Returns(msg)

\* the first line of the stream starts with none of the firstline_prefix values
Unmatched(stream) ==
    \A prefix \in {HTTPGetRequest_prefix, GetWorkRequest_prefix, GetWorkResponse_prefix,
                   WorkCompleteRequest_prefix, WorkCompleteResponse_prefix} :
        ~startswith(readline(stream, 1), prefix)

\* C17: decoding a stream whose first line matches none of the known prefixes
\* ("bogus msg", an empty stream) raises ValueError, no other exception, and
\* returns no message.
C17_UnmatchedPrefixRaisesValueError ==
    [][(msg' = NoMessage /\ Unmatched(wire')) => decoded' = Raises("ValueError")]_vars

\* "bogus msg" was decoded and ValueError was raised
C17_Witness ==
    /\ msg = NoMessage
    /\ wire = << <<"bogus", SP, "msg">> >>
    /\ decoded = Raises("ValueError")

\* a GetWorkResponse was serialized in the last step
Offer_serialized == Serialize_called /\ msg.kind = "GetWorkResponse"

\* the lines of the stream that carry the key with a non-empty value
KeyLines(stream, key) ==
    {n \in 2..Len(stream) : Len(split(stream[n])) = 2 /\ split(stream[n])[1] = key}

\* C18: a GetWorkResponse encodes to the work form only when host and path are
\* both non-empty; with an empty path and a non-empty host, or with a missing
\* host (None, as messages_test.py constructs it, or ""), it encodes to the
\* no-work form; no work form carries an empty Host or Path value.
C18_EmptyFieldEncodesNoWork ==
    Offer_serialized =>
        /\ (encoded.raised = "" /\ encoded.value # no_work_form) =>
               /\ IsFilled(msg.host) /\ IsFilled(msg.path)
               /\ KeyLines(encoded.value, host_key) # {}
               /\ KeyLines(encoded.value, path_key) # {}
        /\ ((IsFilled(msg.host) /\ msg.path = "") \/ ~IsFilled(msg.host)) =>
               encoded = Returns(no_work_form)

\* a work form: the first line begins with the prefix and is not the no-work line
IsWorkFirstLine(line) ==
    startswith(line, GetWorkResponse_prefix) /\ ~find_after_start(line, no_work_marker)

IsBlank(line) == line = <<NL>> \/ line = <<CRLF>>

\* the stream is a work first line followed by Host and Path lines only
IsKeyValueStream(stream) ==
    /\ Len(stream) >= 1
    /\ IsWorkFirstLine(stream[1])
    /\ \A n \in 2..Len(stream) :
           n \in KeyLines(stream, host_key) \cup KeyLines(stream, path_key)

\* C19: a work-available GetWorkResponse for (host, path) is encoded as the
\* ACK_REQWORK prefix line, a "Host: <host>" line, a "Path: <path>" line and a
\* blank terminator line; the decoder accepts the Host and Path lines in either
\* order and raises ValueError when either key is missing.
C19_WorkFormLinesAndTerminator ==
    /\ (Offer_serialized /\ Filled(msg)) =>
           /\ encoded.raised = ""
           /\ Len(encoded.value) = 4
           /\ startswith(encoded.value[1], GetWorkResponse_prefix)
           /\ split(encoded.value[2]) = <<host_key, msg.host>>
           /\ split(encoded.value[3]) = <<path_key, msg.path>>
           /\ IsBlank(encoded.value[4])
    /\ (Deserialize_called /\ IsKeyValueStream(wire)) =>
           IF KeyLines(wire, host_key) # {} /\ KeyLines(wire, path_key) # {}
           THEN /\ decoded.raised = ""
                /\ decoded.value.kind = "GetWorkResponse"
                /\ \E n \in KeyLines(wire, host_key) : decoded.value.host = split(wire[n])[2]
                /\ \E n \in KeyLines(wire, path_key) : decoded.value.path = split(wire[n])[2]
           ELSE decoded = Raises("ValueError")

\* the stream is the first line of a WorkCompleteRequest and a body
IsReportStream(stream) ==
    /\ Len(stream) >= 1
    /\ startswith(stream[1], WorkCompleteRequest_prefix)
    /\ Len(split(stream[1])) = 2

\* the line has the shape "<word> <count>" with a count that is a non-negative integer
IsCountLine(line) ==
    /\ Len(split(line)) = 2
    /\ IsIntToken(split(line)[2])
    /\ int(split(line)[2]) >= 0

\* the blank terminator is reached through lines of that shape only
IsWellFormedBody(stream) ==
    \E n \in 2..Len(stream) :
        /\ stream[n] = Blank
        /\ \A k \in 2..(n - 1) : IsCountLine(stream[k])

\* C20: decoding a WorkCompleteRequest returns a message only when every body
\* line up to the blank terminator has the shape "<word> <count>" with a
\* non-negative integer count; a line with another number of tokens, a
\* non-numeric or negative count, or a stream that ends before the blank line,
\* makes the decode raise ValueError.
C20_OnlyWellFormedBodiesDecode ==
    (Deserialize_called /\ IsReportStream(wire)) =>
        IF IsWellFormedBody(wire)
        THEN decoded.raised = "" /\ decoded.value.kind = "WorkCompleteRequest"
        ELSE decoded = Raises("ValueError")

(***************************************************************************)
(* The claims about the Coordinator and its volunteers together, and about *)
(* reports for units that were never handed out.                           *)
(***************************************************************************)
\* C21: the Coordinator handles connections strictly one at a time. At most
\* one accepted connection is open at any moment; a connection is accepted only
\* when none is open, so the one before it was closed first; on a connection
\* the Coordinator deserializes one request, calls the WorkTracker at most
\* once and writes at most one response, and by the time the connection is
\* closed it has deserialized exactly one request; and every step that changes
\* the WorkTracker is the one call made for the one open connection, so no two
\* WorkTracker operations interleave.
C21_OneConnectionAtATime ==
    [][/\ Len(serving') <= 1
       /\ (Len(serving') > Len(serving)) => serving = <<>>
       /\ \A i \in 1..Len(serving') :
              /\ serving'[i].deserialized <= 1
              /\ serving'[i].tracker_calls <= 1
              /\ serving'[i].written <= 1
       /\ (Len(serving') < Len(serving)) =>
              /\ serving[Len(serving)].deserialized = 1
              /\ at' \in {"accept", "done"}
       /\ (tracker' # tracker) =>
              /\ Len(serving) = 1
              /\ serving[1].tracker_calls = 0
              /\ serving'[1].tracker_calls = 1]_vars

\* a client waits in the queue while the connection accepted before it, the
\* second one at least, has had its request read, its WorkTracker call made
\* and its response written, and is about to be closed
C21_Witness ==
    /\ backlog # <<>>
    /\ Len(serving) = 1
    /\ at = "close"
    /\ serving[1].deserialized = 1
    /\ serving[1].tracker_calls = 1
    /\ serving[1].written = 1
    /\ finished_paths # {}

\* C22: with one Coordinator and volunteers that follow
\* keep_working_until_done, each of which may stop at any point, a volunteer
\* that has taken a unit holds a path that is Started or Finished, and every
\* WorkCompleteRequest the Coordinator receives decodes to the path the
\* volunteer was offered, which is in started_paths or finished_paths at that
\* moment; so process_result never removes a path that is not in
\* started_paths: it raises no KeyError and the accept loop goes on.
C22_ReportsNameStartedOrFinishedUnits ==
    [][\A v \in Volunteers :
          /\ (vol'[v].pc \in {"do_work", "report_work"}) =>
                 vol'[v].path \in started_paths' \cup finished_paths'
          /\ (vol[v].pc = "report_work" /\ vol'[v].pc = "get_work" /\ ~refused) =>
                 /\ decoded'.raised = ""
                 /\ decoded'.value.kind = "WorkCompleteRequest"
                 /\ decoded'.value.path = vol[v].path
                 /\ decoded'.value.path \in started_paths \cup finished_paths
                 /\ op' = "process_result"
                 /\ arg' = vol[v].path
                 /\ ~remove_raises(arg') \/ already_processed(arg')
                 /\ branch' \in {"merged", "already_finished"}
                 /\ loop' = "accepting"]_vars

\* the Coordinator has just handled the report of a unit that was handed out
\* twice and reported before: its path was Finished when the report came
C22_Witness ==
    /\ op = "process_result"
    /\ branch = "already_finished"
    /\ arg \in finished_paths
    /\ loop = "accepting"
    /\ \E v \in Volunteers : vol[v].pc = "get_work" /\ vol[v].path = arg

\* C23: a process_result call for a configured path that is still Unstarted
\* merges nothing: the frequency table and the three state sets are the same
\* after the call as before it, and the path does not become Finished.
C23_UnstartedReportMergesNothing ==
    [][(op' = "process_result" /\ arg' \in unstarted_paths) =>
          /\ word_counts' = word_counts
          /\ sets' = sets
          /\ arg' \notin finished_paths']_vars

====
